---- MODULE Spec2Model ----
(***************************************************************************)
(* A model of arpeggio_visualizer.py: the selection parser, the contact    *)
(* extractor (parse_json_contacts), the script generator and the batch     *)
(* loop of main.                                                           *)
(*                                                                         *)
(* Python strings that the code takes apart (selection strings) are        *)
(* sequences of one-character strings; Python's None is the one-element    *)
(* sequence <<"None">>, which no string over Alphabet equals.  Labels,     *)
(* record types and atom names are only ever compared or used as keys and  *)
(* are TLA+ strings.                                                       *)
(***************************************************************************)
EXTENDS Integers, Sequences, FiniteSets, TLC

VARIABLES
    pc,               \* position of the running call
    selection_str,    \* the selection string under processing
    chain,            \* generate_enhanced_pymol_script: chain
    resid,            \* generate_enhanced_pymol_script: resid
    exc,              \* the exception propagating out, or "none"
    caller,           \* who called parse_json_contacts
    filter_selection, \* generate_enhanced_pymol_script: filter_selection
    json_exists,      \* os.path.exists(json_file)
    data,             \* the records of the JSON document iterated so far
    filter_chain,     \* parse_json_contacts: filter_chain
    filter_resid,     \* parse_json_contacts: filter_resid
    contacts,         \* parse_json_contacts: contacts
    kept,             \* per record of data: did the iteration pass both continues
    script_lines,     \* the script written to output_script, <<>> before
    interaction_types,\* the label list of the record whose flag is determined
    dist_flag,        \* parse_json_contacts: dist_flag
    args,             \* main: the parsed options and the number of selections
    sel_index,        \* main: how many selections of args.selection were begun
    log,              \* main: the outcome reported for each selection begun
    events,           \* main: the calls made so far, each with its selection's index
    outputs,          \* main: per script written, the selection and the file names
    temp_script,      \* run_pymol_automation: the temporary script file
    result,           \* run_pymol_automation: <<returncode>> once the process ended
    caught,           \* run_pymol_automation: the exception an except clause caught
    ret,              \* run_pymol_automation: the value of the return statement taken
    remove_failed,    \* run_pymol_automation: os.remove raised in the finally block
    nfiles,           \* pdb2cif batch: len(pdb_files)
    file_index,       \* pdb2cif batch: how many files of pdb_files were begun
    calls,            \* pdb2cif batch: the conversion calls made, each with its file
    results,          \* pdb2cif batch: what pdb_to_cif_enhanced returned, per file
    success_count     \* pdb2cif batch: success_count

selVars == <<selection_str, chain, resid>>
pjcVars == <<caller, filter_selection, json_exists, data, filter_chain,
             filter_resid, contacts, kept, script_lines>>
flagVars == <<interaction_types, dist_flag>>
mainVars == <<args, sel_index, log, events, outputs>>

rpaVars == <<temp_script, result, caught, ret, remove_failed>>
cifVars == <<nfiles, file_index, calls, results, success_count>>
toolVars == <<rpaVars, cifVars>>

vars == <<pc, exc, selVars, pjcVars, flagVars, mainVars, toolVars>>

\* ------------------------------------------------------------------ bounds
MaxLen == 5
MaxRecs == 2
GenLen == 3
GenRecs == 1
MaxLabels == 3
MaxSels == 2
MaxCode == 1
MaxFiles == 3
MaxStyleLabels == 2

\* ------------------------------------------------------- Python strings
Alphabet == {"/", ":", "A", "1"}

None == <<"None">>

Strings(n) == UNION {[1..k -> Alphabet] : k \in 0..n}

\* bool(x) of a value that is None or a string
Truthy(x) == x # None /\ x # <<>>

\* sep in s
Contains(s, sep) == \E k \in 1..Len(s) : s[k] = sep

\* s.startswith('/') and s.endswith('/')
SlashFramed(s) == Len(s) >= 1 /\ s[1] = "/" /\ s[Len(s)] = "/"

RECURSIVE LStrip(_, _)
LStrip(s, c) == IF s # <<>> /\ Head(s) = c THEN LStrip(Tail(s), c) ELSE s

RECURSIVE RStrip(_, _)
RStrip(s, c) ==
    IF s # <<>> /\ s[Len(s)] = c THEN RStrip(SubSeq(s, 1, Len(s) - 1), c) ELSE s

\* s.strip(c): every leading and every trailing c is removed
Strip(s, c) == RStrip(LStrip(s, c), c)

\* s.split(sep): the list of the pieces between the separators, never empty
RECURSIVE Split(_, _)
Split(s, sep) ==
    IF ~Contains(s, sep) THEN <<s>>
    ELSE LET k == CHOOSE j \in 1..Len(s) :
                      s[j] = sep /\ \A m \in 1..(j - 1) : s[m] # sep
         IN  <<SubSeq(s, 1, k - 1)>> \o Split(SubSeq(s, k + 1, Len(s)), sep)

\* ------------------------------------------------------ parse_selection
Ret(c, r) == [raised |-> FALSE, chain |-> c, resid |-> r]

\* "too many values to unpack" / "not enough values to unpack"
ValueError == [raised |-> TRUE, chain |-> None, resid |-> None]

\* the branch for /A/10/
SlashForm(s) ==
    LET parts == Split(Strip(s, "/"), "/")
    IN  IF Len(parts) >= 2
        THEN Ret(IF parts[1] # <<>> THEN parts[1] ELSE <<"A">>,
                 IF parts[2] # <<>> THEN parts[2] ELSE None)
        ELSE Ret(None, None)

ColonFormLenient(s) ==
    LET parts == Split(s, ":") IN Ret(parts[1], parts[2])

\* the branch for A:10: chain, resid = selection_str.split(':')
ColonForm(s) ==
    LET parts == Split(s, ":")
    IN  IF Len(parts) = 2 THEN Ret(parts[1], parts[2]) ELSE ValueError

BareFormDefaultChain(s) == Ret(<<"A">>, s)

\* the branch for a bare residue number
BareForm(s) == Ret(None, s)

parse_selection(s) ==
    IF SlashFramed(s) THEN SlashForm(s)
    ELSE IF Contains(s, ":") THEN ColonForm(s)
    ELSE BareForm(s)

\* int(s): accepted exactly for a non-empty string of decimal digits (the
\* sign, blank and underscore forms need characters outside Alphabet)
Digits == {"0", "1", "2", "3", "4", "5", "6", "7", "8", "9"}

IsInt(s) == s # <<>> /\ \A k \in 1..Len(s) : s[k] \in Digits

DigitVal(c) == CHOOSE d \in 0..9 : <<"0", "1", "2", "3", "4", "5", "6", "7", "8", "9">>[d + 1] = c

RECURSIVE IntVal(_)
IntVal(s) ==
    IF s = <<>> THEN 0
    ELSE 10 * IntVal(SubSeq(s, 1, Len(s) - 1)) + DigitVal(s[Len(s)])

\* ------------------------------------------------- the JSON document
\* d.get(k, default)
Get(d, k, default) == IF k \in DOMAIN d THEN d[k] ELSE default

eA1 == [auth_asym_id |-> <<"A">>, auth_seq_id |-> 1, auth_atom_id |-> "N"]
eA11 == [auth_asym_id |-> <<"A">>, auth_seq_id |-> 11, auth_atom_id |-> "CA"]
eB11 == [auth_asym_id |-> <<"B">>, auth_seq_id |-> 11, auth_atom_id |-> "O"]
\* an endpoint without chain, residue number or atom name
eBare == [label_comp_id |-> "ALA"]

Rec(t, b, e, l, d) ==
    [type |-> t, bgn |-> b, end |-> e, contact |-> l, distance |-> d]

\* the records an input document is made of
Records ==
    {Rec("atom-atom", b, e, <<"hbond">>, 3) : b \in {eA1, eA11, eB11}, e \in {eBare, eA11}}
    \cup {Rec("atom-atom", eA1, eB11, l, 4) :
            l \in {<<"vdw_clash", "aromatic">>, <<"proximal", "clash", "foo">>}}
    \cup {Rec("atom-plane", eA1, eA11, <<"hbond">>, 3),
          [bgn |-> eA1, end |-> eB11, contact |-> <<"hbond">>, distance |-> 3],
          [type |-> "atom-atom"]}

\* ------------------------------------------------ parse_json_contacts
\* the five labels that name a distance class, and the flag each sets
FlagOf(label) ==
    CASE label = "clash" -> "clash"
      [] label = "covalent" -> "covalent"
      [] label = "vdw_clash" -> "vdwclash"
      [] label = "vdw" -> "vdw"
      [] label = "proximal" -> "proximal"

IsFlagLabel(label) ==
    label \in {"clash", "covalent", "vdw_clash", "vdw", "proximal"}

\* the loop without its break statements: the last distance label wins
RECURSIVE DistFlagNoBreak(_)
DistFlagNoBreak(types) ==
    IF types = <<>> THEN "proximal"
    ELSE IF IsFlagLabel(types[Len(types)]) THEN FlagOf(types[Len(types)])
    ELSE DistFlagNoBreak(SubSeq(types, 1, Len(types) - 1))

\* the loop that determines dist_flag: the labels are visited in list order
\* and the first one that names a distance class ends the loop
RECURSIVE DistFlag(_)
DistFlag(types) ==
    IF types = <<>> THEN "proximal"
    ELSE IF IsFlagLabel(Head(types)) THEN FlagOf(Head(types))
    ELSE DistFlag(Tail(types))

Mapped ==
    {"clash", "covalent", "vdw_clash", "vdw", "proximal", "hbond", "weak_hbond",
     "xbond", "ionic", "metal", "aromatic", "hydrophobic", "carbonyl", "polar",
     "weak_polar"}

\* a label that is not in the table is passed through unchanged
contact_type_mappingPassthrough(label) ==
    CASE label = "vdw_clash" -> "vdwclash"
      [] label = "weak_hbond" -> "weakhbond"
      [] label = "metal" -> "metalcomplex"
      [] label = "weak_polar" -> "weakpolar"
      [] OTHER -> label

\* contact_type_mapping.get(contact_type, 'undefined')
contact_type_mapping(label) ==
    CASE label = "vdw_clash" -> "vdwclash"
      [] label = "weak_hbond" -> "weakhbond"
      [] label = "metal" -> "metalcomplex"
      [] label = "weak_polar" -> "weakpolar"
      [] label \in Mapped \ {"vdw_clash", "weak_hbond", "metal", "weak_polar"} -> label
      [] OTHER -> "undefined"

NoFilter == [raised |-> FALSE, filter_chain |-> None, filter_resid |-> None]

Filter(c, r) == [raised |-> FALSE, filter_chain |-> c, filter_resid |-> r]

FilterError == [raised |-> TRUE, filter_chain |-> None, filter_resid |-> None]

\* a residue that is no integer is dropped instead of raising
ParseFilterLenient(selection) ==
    IF ~Truthy(selection) THEN NoFilter
    ELSE IF Contains(selection, ":")
    THEN LET parts == Split(selection, ":")
         IN  IF Len(parts) # 2 THEN FilterError
             ELSE IF ~IsInt(parts[2]) THEN NoFilter
             ELSE Filter(parts[1], IntVal(parts[2]))
    ELSE IF ~IsInt(selection) THEN NoFilter
    ELSE Filter(None, IntVal(selection))

\* the selection is parsed after the document is loaded
ParseFilter(selection) ==
    IF ~Truthy(selection) THEN NoFilter
    ELSE IF Contains(selection, ":")
    THEN LET parts == Split(selection, ":")
         IN  IF Len(parts) # 2 THEN FilterError
             ELSE IF ~IsInt(parts[2]) THEN FilterError
             ELSE Filter(parts[1], IntVal(parts[2]))
    ELSE IF ~IsInt(selection) THEN FilterError
    ELSE Filter(None, IntVal(selection))

AtomChain(atom) == Get(atom, "auth_asym_id", <<"A">>)
AtomResid(atom) == Get(atom, "auth_seq_id", 1)
AtomName(atom) == Get(atom, "auth_atom_id", "CA")

\* bgn_matches / end_matches
Matches(atom, fchain, fresid) ==
    IF Truthy(fchain)
    THEN AtomChain(atom) = fchain /\ AtomResid(atom) = fresid
    ELSE AtomResid(atom) = fresid

\* both endpoints must match
PassesFilterBoth(contact, selection, fchain, fresid) ==
    Truthy(selection) =>
        /\ Matches(Get(contact, "bgn", eBare), fchain, fresid)
        /\ Matches(Get(contact, "end", eBare), fchain, fresid)

\* without a selection every record is skipped
PassesFilterNeedsSelection(contact, selection, fchain, fresid) ==
    /\ Truthy(selection)
    /\ \/ Matches(Get(contact, "bgn", eBare), fchain, fresid)
       \/ Matches(Get(contact, "end", eBare), fchain, fresid)

\* if not (bgn_matches or end_matches): continue
PassesFilter(contact, selection, fchain, fresid) ==
    Truthy(selection) =>
        \/ Matches(Get(contact, "bgn", eBare), fchain, fresid)
        \/ Matches(Get(contact, "end", eBare), fchain, fresid)

\* a record without a type is taken for an atom-atom record
IsAtomAtomByDefault(contact) == Get(contact, "type", "atom-atom") = "atom-atom"

\* contact.get('type') != 'atom-atom': continue
IsAtomAtom(contact) == Get(contact, "type", "None") = "atom-atom"

\* f"chain {..} and resi {..} and name {..}"
Selector(atom) ==
    [chain |-> AtomChain(atom), resi |-> AtomResid(atom), name |-> AtomName(atom)]

\* the flag is determined per label instead of once per record
DescriptorsFlagPerLabel(contact) ==
    LET types == Get(contact, "contact", <<>>)
    IN  [k \in 1..Len(types) |->
            [bgn_sel |-> Selector(Get(contact, "bgn", eBare)),
             end_sel |-> Selector(Get(contact, "end", eBare)),
             interaction_type |-> contact_type_mapping(types[k]),
             dist_flag |-> DistFlag(<<types[k]>>),
             original_type |-> types[k],
             distance |-> Get(contact, "distance", 0)]]

\* the descriptors appended for one record that was not skipped
Descriptors(contact) ==
    LET types == Get(contact, "contact", <<>>)
    IN  [k \in 1..Len(types) |->
            [bgn_sel |-> Selector(Get(contact, "bgn", eBare)),
             end_sel |-> Selector(Get(contact, "end", eBare)),
             interaction_type |-> contact_type_mapping(types[k]),
             dist_flag |-> DistFlag(types),
             original_type |-> types[k],
             distance |-> Get(contact, "distance", 0)]]

\* -------------------------------- generate_enhanced_pymol_script: the script
structure_file == "1crn.cif"

\* os.path.splitext(os.path.basename(structure_file))[0]
base_name == "1crn"

\* pymol_config["dashcolor"]
dashcolor ==
    [
     hbond |-> [vdwclash |-> "purple", vdw |-> "purple", proximal |-> "purple"],
     polar |-> [vdwclash |-> "lightblue", vdw |-> "lightblue", proximal |-> "lightblue"],
     weakhbond |-> [vdwclash |-> "violet", vdw |-> "violet", proximal |-> "violet"],
     weakpolar |-> [vdwclash |-> "paleblue", vdw |-> "paleblue", proximal |-> "paleblue"],
     aromatic |-> [vdwclash |-> "red", vdw |-> "red", proximal |-> "red"],
     hydrophobic |-> [vdwclash |-> "blue", vdw |-> "blue", proximal |-> "blue"],
     carbonyl |-> [vdwclash |-> "orange", vdw |-> "orange", proximal |-> "orange"],
     ionic |-> [vdwclash |-> "yellow", vdw |-> "yellow", proximal |-> "yellow"],
     metalcomplex |-> [covalent |-> "magenta", vdwclash |-> "magenta", vdw |-> "magenta"],
     xbond |-> [vdwclash |-> "cyan", vdw |-> "cyan", proximal |-> "cyan"],
     undefined |-> [covalent |-> "white", vdwclash |-> "lightcoral", vdw |-> "green", proximal |-> "grey60"],
     clash |-> [clash |-> "lightcoral"],
     covalent |-> [covalent |-> "white"],
     vdwclash |-> [vdwclash |-> "lightcoral"],
     vdw |-> [vdw |-> "green"],
     proximal |-> [proximal |-> "grey60"]]

\* pymol_config["dashradius"]
dashradius ==
    [
     hbond |-> [vdwclash |-> "0.03", vdw |-> "0.03", proximal |-> "0.03"],
     polar |-> [vdwclash |-> "0.025", vdw |-> "0.025", proximal |-> "0.025"],
     weakhbond |-> [vdwclash |-> "0.02", vdw |-> "0.02", proximal |-> "0.02"],
     weakpolar |-> [vdwclash |-> "0.02", vdw |-> "0.02", proximal |-> "0.02"],
     aromatic |-> [vdwclash |-> "0.035", vdw |-> "0.035", proximal |-> "0.035"],
     hydrophobic |-> [vdwclash |-> "0.025", vdw |-> "0.025", proximal |-> "0.025"],
     carbonyl |-> [vdwclash |-> "0.025", vdw |-> "0.025", proximal |-> "0.025"],
     ionic |-> [vdwclash |-> "0.04", vdw |-> "0.04", proximal |-> "0.04"],
     metalcomplex |-> [covalent |-> "0.04", vdwclash |-> "0.04", vdw |-> "0.04"],
     xbond |-> [vdwclash |-> "0.025", vdw |-> "0.025", proximal |-> "0.025"],
     undefined |-> [covalent |-> "0.02", vdwclash |-> "0.02", vdw |-> "0.02", proximal |-> "0.015"],
     clash |-> [clash |-> "0.02"],
     covalent |-> [covalent |-> "0.02"],
     vdwclash |-> [vdwclash |-> "0.02"],
     vdw |-> [vdw |-> "0.02"],
     proximal |-> [proximal |-> "0.015"]]

\* pymol_config["dashgap"]
dashgap ==
    [
     hbond |-> [vdwclash |-> "0.15", vdw |-> "0.15", proximal |-> "0.15"],
     polar |-> [vdwclash |-> "0.2", vdw |-> "0.2", proximal |-> "0.2"],
     weakhbond |-> [vdwclash |-> "0.25", vdw |-> "0.25", proximal |-> "0.25"],
     weakpolar |-> [vdwclash |-> "0.25", vdw |-> "0.25", proximal |-> "0.25"],
     aromatic |-> [vdwclash |-> "0.1", vdw |-> "0.1", proximal |-> "0.1"],
     hydrophobic |-> [vdwclash |-> "0.2", vdw |-> "0.2", proximal |-> "0.2"],
     carbonyl |-> [vdwclash |-> "0.2", vdw |-> "0.2", proximal |-> "0.2"],
     ionic |-> [vdwclash |-> "0.1", vdw |-> "0.1", proximal |-> "0.1"],
     metalcomplex |-> [covalent |-> "0.1", vdwclash |-> "0.1", vdw |-> "0.1"],
     xbond |-> [vdwclash |-> "0.2", vdw |-> "0.2", proximal |-> "0.2"],
     undefined |-> [covalent |-> "0.0", vdwclash |-> "0.3", vdw |-> "0.3", proximal |-> "0.8"],
     clash |-> [clash |-> "0.3"],
     covalent |-> [covalent |-> "0.0"],
     vdwclash |-> [vdwclash |-> "0.3"],
     vdw |-> [vdw |-> "0.3"],
     proximal |-> [proximal |-> "0.8"]]

\* pymol_config["dashlength"]
dashlength ==
    [
     hbond |-> [vdwclash |-> "0.2", vdw |-> "0.2", proximal |-> "0.2"],
     polar |-> [vdwclash |-> "0.15", vdw |-> "0.15", proximal |-> "0.15"],
     weakhbond |-> [vdwclash |-> "0.1", vdw |-> "0.1", proximal |-> "0.1"],
     weakpolar |-> [vdwclash |-> "0.1", vdw |-> "0.1", proximal |-> "0.1"],
     aromatic |-> [vdwclash |-> "0.25", vdw |-> "0.25", proximal |-> "0.25"],
     hydrophobic |-> [vdwclash |-> "0.15", vdw |-> "0.15", proximal |-> "0.15"],
     carbonyl |-> [vdwclash |-> "0.15", vdw |-> "0.15", proximal |-> "0.15"],
     ionic |-> [vdwclash |-> "0.3", vdw |-> "0.3", proximal |-> "0.3"],
     metalcomplex |-> [covalent |-> "0.3", vdwclash |-> "0.3", vdw |-> "0.3"],
     xbond |-> [vdwclash |-> "0.15", vdw |-> "0.15", proximal |-> "0.15"],
     undefined |-> [covalent |-> "0.5", vdwclash |-> "0.1", vdw |-> "0.1", proximal |-> "0.05"],
     clash |-> [clash |-> "0.1"],
     covalent |-> [covalent |-> "0.5"],
     vdwclash |-> [vdwclash |-> "0.1"],
     vdw |-> [vdw |-> "0.1"],
     proximal |-> [proximal |-> "0.05"]]

\* one add_command: the text of the command and the values formatted into it
Line(c) == [cmd |-> c, arg |-> <<>>]
LineA(c, a) == [cmd |-> c, arg |-> a]
Lines(cs) == [k \in 1..Len(cs) |-> Line(cs[k])]

\* selection_str.replace('/', '_').replace(':', '_')
selection_clean(s) ==
    [k \in 1..Len(s) |-> IF s[k] \in {"/", ":"} THEN "_" ELSE s[k]]

\* f"{base_name}_{selection_clean}.pse"
PseFile(s) == <<base_name, "_">> \o selection_clean(s) \o <<".pse">>

Preamble(sel) ==
    <<Line("# Enhanced Arpeggio Visualization Script"),
      LineA("# Generated for selection:", <<sel>>)>>
    \o Lines(<<"reinitialize", "",
               "# Enhanced visual settings", "set valence, 1", "set stick_rad, 0.12",
               "set line_width, 2", "set mesh_width, 0.5", "set label_size, 12",
               "set sphere_scale, 0.2", "set dash_round_ends, 1", "set dash_gap, 0.2",
               "set dash_length, 0.15", "",
               "# Enhanced color palette", "set_color lightblue, (173, 216, 230)",
               "set_color lightcoral, (240, 128, 128)",
               "set_color paleblue, (175, 238, 238)",
               "set_color violet, (238, 130, 238)", "set_color gold, (255, 215, 0)",
               "set_color forest, (34, 139, 34)", "set_color crimson, (220, 20, 60)", "",
               "# Premium quality settings", "set line_smooth, 1", "set antialias, 3",
               "set cartoon_fancy_helices, 1", "set cartoon_smooth_loops, 1",
               "set depth_cue, 1", "set specular, 1", "set shininess, 50",
               "set surface_quality, 2", "set stick_quality, 20",
               "set sphere_quality, 3", "set cartoon_sampling, 20",
               "set ribbon_sampling, 15", "set transparency_mode, 2",
               "set stick_ball, 1", "set stick_ball_ratio, 2.0", "set ray_shadows, 1",
               "rebuild", "">>)
    \o <<LineA("load", <<structure_file>>)>>
    \o Lines(<<"select binding_site, None", "select target_residue, None",
               "set defer_update, 1", "">>)

NoContactsLines ==
    Lines(<<"# No contacts found for the specified selection",
            "print \"No contacts found for the specified selection\"">>)

\* if chain and resid: the target residue is highlighted
Highlight(c, r) ==
    IF Truthy(c) /\ Truthy(r)
    THEN <<LineA("# Highlight target residue", <<c, r>>),
           LineA("select target_residue, chain, resi", <<c, r>>),
           Line("show sticks, target_residue"),
           Line("color yellow, target_residue"),
           Line("set stick_radius, 0.2, target_residue"),
           Line("")>>
    ELSE <<>>

\* the flag a contact is labelled with: its own type for the five distance
\* classes, the record's dist_flag otherwise
LabelFlagAsRecorded(contact) == contact.dist_flag

LabelFlag(contact) ==
    IF contact.interaction_type \in {"clash", "covalent", "vdwclash", "vdw", "proximal"}
    THEN contact.interaction_type
    ELSE contact.dist_flag

\* (interaction_type, dist_flag) as added to used_interaction_types
UsedPair(contact) == <<contact.interaction_type, LabelFlag(contact)>>

\* the five commands of one contact
ContactBlock(contact) ==
    <<LineA("distance", <<UsedPair(contact), contact.bgn_sel, contact.end_sel>>),
      LineA("show sticks, byres", <<contact.bgn_sel>>),
      LineA("show sticks, byres", <<contact.end_sel>>),
      LineA("select binding_site, binding_site + byres", <<contact.bgn_sel>>),
      LineA("select binding_site, binding_site + byres", <<contact.end_sel>>)>>

RECURSIVE ContactBlocks(_)
ContactBlocks(cs) ==
    IF cs = <<>> THEN <<>> ELSE ContactBlock(Head(cs)) \o ContactBlocks(Tail(cs))

used_interaction_types(cs) == {UsedPair(cs[k]) : k \in 1..Len(cs)}

\* the iteration orders of a set
Orders(S) ==
    {f \in [1..Cardinality(S) -> S] : \A a, b \in 1..Cardinality(S) : f[a] = f[b] => a = b}

\* the pair has an entry in pymol_config['dashcolor']
HasColor(pair) ==
    pair[1] \in DOMAIN dashcolor /\ pair[2] \in DOMAIN dashcolor[pair[1]]

\* interaction_styling: one entry per used pair that has a colour, in the
\* order the set is iterated
RECURSIVE interaction_styling(_)
interaction_styling(order) ==
    IF order = <<>> THEN <<>>
    ELSE LET t == Head(order)[1]
             f == Head(order)[2]
         IN  (IF HasColor(Head(order))
              THEN <<[label |-> Head(order), color |-> dashcolor[t][f],
                      radius |-> dashradius[t][f], gap |-> dashgap[t][f],
                      length |-> dashlength[t][f]]>>
              ELSE <<>>)
             \o interaction_styling(Tail(order))

\* the interaction types in sorted() order
SortedTypes ==
    <<"aromatic", "carbonyl", "clash", "covalent", "hbond", "hydrophobic", "ionic",
      "metalcomplex", "polar", "proximal", "undefined", "vdw", "vdwclash",
      "weakhbond", "weakpolar", "xbond">>

CountOf(cs, t) == Cardinality({k \in 1..Len(cs) : cs[k].interaction_type = t})

RECURSIVE SummaryFrom(_, _)
SummaryFrom(cs, ts) ==
    IF ts = <<>> THEN <<>>
    ELSE (IF CountOf(cs, Head(ts)) > 0
          THEN <<LineA("print \"Found interactions\"", <<CountOf(cs, Head(ts)), Head(ts)>>)>>
          ELSE <<>>)
         \o SummaryFrom(cs, Tail(ts))

Summary(cs) ==
    Lines(<<"", "# Interaction summary">>) \o SummaryFrom(cs, SortedTypes)

FinalVisualization ==
    Lines(<<"", "# Enhanced final visualization - IMPORTANT: util.cbaw resets colors!",
            "hide labels", "util.cbaw", "bg_color white", "show cartoon",
            "set cartoon_side_chain_helper, 1", "set cartoon_transparency, 0.3",
            "# Keep main chain visible, only hide unnecessary lines",
            "hide everything, het", "show sticks, het", "show spheres, het",
            "color atomic, het">>)

StyleBlock(st) ==
    <<LineA("color", <<st.color, st.label>>),
      LineA("set dash_radius", <<st.radius, st.label>>),
      LineA("set dash_gap", <<st.gap, st.label>>),
      LineA("set dash_length", <<st.length, st.label>>)>>

RECURSIVE StyleBlocks(_)
StyleBlocks(sts) ==
    IF sts = <<>> THEN <<>> ELSE StyleBlock(Head(sts)) \o StyleBlocks(Tail(sts))

\* if contacts and interaction_styling: the styling goes after util.cbaw
StyleLines(cs, sts) ==
    IF cs # <<>> /\ sts # <<>>
    THEN Lines(<<"", "# Apply interaction-specific styling AFTER util.cbaw">>)
         \o StyleBlocks(sts)
    ELSE <<>>

Closing(sel, cs) ==
    Lines(<<"", "# Create interaction legend", "select legend_area, None",
            "", "# Enhanced binding site visualization",
            "# Surface display disabled per user preference", "",
            "# Label interacting residues with amino acid code and position",
            "label binding_site and name CA, oneletter + resi",
            "set label_color, black", "set label_size, 14",
            "set label_outline_color, black", "set label_position, (0, 0, 2)",
            "disable undefined-proximal", "disable proximal-proximal",
            "set defer_update, 0", "zoom binding_site", "">>)
    \o <<LineA("save", <<PseFile(sel)>>), Line(""),
         LineA("print \"Visualization complete! Session saved as\"", <<PseFile(sel)>>),
         LineA("print \"Target selection:\"", <<sel>>),
         LineA("print \"Total contacts:\"", <<Len(cs)>>)>>

\* script_lines as written to output_script, for one iteration order of
\* used_interaction_types
ScriptLinesStylingFirst(sel, c, r, cs, order) ==
    Preamble(sel)
    \o (IF cs = <<>>
        THEN NoContactsLines
        ELSE Highlight(c, r) \o ContactBlocks(cs) \o Summary(cs))
    \o StyleLines(cs, interaction_styling(order))
    \o FinalVisualization
    \o Closing(sel, cs)

ScriptLines(sel, c, r, cs, order) ==
    Preamble(sel)
    \o (IF cs = <<>>
        THEN NoContactsLines
        ELSE Highlight(c, r) \o ContactBlocks(cs) \o Summary(cs))
    \o FinalVisualization
    \o StyleLines(cs, interaction_styling(order))
    \o Closing(sel, cs)

\* --------- specification: one call that reaches parse_json_contacts
PjcIdle ==
    /\ caller = "none"
    /\ filter_selection = None
    /\ json_exists = FALSE
    /\ data = <<>>
    /\ filter_chain = None
    /\ filter_resid = None
    /\ contacts = <<>>
    /\ kept = <<>>
    /\ script_lines = <<>>

FlagIdle ==
    /\ interaction_types = <<>>
    /\ dist_flag = "unset"

NoArgs ==
    [skip_analysis |-> FALSE, pymol_only |-> FALSE, auto_pymol |-> FALSE,
     no_auto_pymol |-> FALSE, nsel |-> 0]

MainIdle ==
    /\ args = NoArgs
    /\ sel_index = 0
    /\ log = <<>>
    /\ events = <<>>
    /\ outputs = <<>>

\* the temporary script: absent, or there with the lines written to it
NoFile == [exists |-> FALSE, lines |-> <<>>]
File(ls) == [exists |-> TRUE, lines |-> ls]

RpaIdle ==
    /\ temp_script = NoFile
    /\ result = <<>>
    /\ caught = "none"
    /\ ret = "pending"
    /\ remove_failed = FALSE

CifIdle ==
    /\ nfiles = 0
    /\ file_index = 0
    /\ calls = <<>>
    /\ results = <<>>
    /\ success_count = 0

ToolIdle == RpaIdle /\ CifIdle

\* generate_enhanced_pymol_script(json_file, structure_file, selection_str, ..)
InitGenerate ==
    /\ pc = "generate"
    /\ caller = "generate"
    /\ selection_str \in Strings(MaxLen)
    /\ json_exists \in BOOLEAN
    /\ filter_selection = None

\* parse_json_contacts(json_file), without a selection
InitDirect ==
    /\ pc = "parse_json_contacts"
    /\ caller = "direct"
    /\ selection_str = None
    /\ json_exists \in BOOLEAN
    /\ filter_selection = None

InitExt ==
    /\ InitGenerate \/ InitDirect
    /\ chain = None
    /\ resid = None
    /\ exc = "none"
    /\ data = <<>>
    /\ filter_chain = None
    /\ filter_resid = None
    /\ contacts = <<>>
    /\ kept = <<>>
    /\ script_lines = <<>>
    /\ FlagIdle
    /\ MainIdle
    /\ ToolIdle

\* filter_selection = f"{chain}:{resid}" if chain and resid else resid
FilterSelection(c, r) ==
    IF Truthy(c) /\ Truthy(r) THEN c \o <<":">> \o r ELSE r

\* chain, resid = parse_selection(selection_str); filter_selection = ...
GenParseSelection ==
    /\ pc = "generate"
    /\ LET r == parse_selection(selection_str)
       IN  IF r.raised
           THEN /\ exc' = "ValueError"
                /\ pc' = "raised"
                /\ UNCHANGED <<chain, resid, filter_selection>>
           ELSE /\ chain' = r.chain
                /\ resid' = r.resid
                /\ filter_selection' = FilterSelection(r.chain, r.resid)
                /\ pc' = "parse_json_contacts"
                /\ UNCHANGED exc
    /\ UNCHANGED <<selection_str, caller, json_exists, data, filter_chain,
                   filter_resid, contacts, kept, script_lines, flagVars, mainVars, toolVars>>

\* without the existence check, open() raises on the missing file
PjcMissingRaises ==
    /\ pc = "parse_json_contacts"
    /\ ~json_exists
    /\ exc' = "FileNotFoundError"
    /\ pc' = "raised"
    /\ UNCHANGED <<selVars, pjcVars, flagVars, mainVars, toolVars>>

\* the JSON file is not there: return []
PjcMissing ==
    /\ pc = "parse_json_contacts"
    /\ ~json_exists
    /\ pc' = "return"
    /\ UNCHANGED <<exc, selVars, pjcVars, flagVars, mainVars, toolVars>>

\* the document is loaded, then the selection is split and converted
PjcLoad ==
    /\ pc = "parse_json_contacts"
    /\ json_exists
    /\ LET f == ParseFilter(filter_selection)
       IN  IF f.raised
           THEN /\ exc' = "ValueError"
                /\ pc' = "raised"
                /\ UNCHANGED <<filter_chain, filter_resid>>
           ELSE /\ filter_chain' = f.filter_chain
                /\ filter_resid' = f.filter_resid
                /\ pc' = "loop"
                /\ UNCHANGED exc
    /\ UNCHANGED <<selVars, caller, filter_selection, json_exists, data,
                   contacts, kept, script_lines, flagVars, mainVars, toolVars>>

\* one iteration of "for contact in data", for a document of at most n
\* records taken from recs
IterateOver(recs, n) ==
    /\ pc = "loop"
    /\ Len(data) < n
    /\ \E contact \in recs :
        /\ data' = Append(data, contact)
        /\ IF /\ IsAtomAtom(contact)
              /\ PassesFilter(contact, filter_selection, filter_chain, filter_resid)
           THEN /\ contacts' = contacts \o Descriptors(contact)
                /\ kept' = Append(kept, TRUE)
           ELSE /\ contacts' = contacts
                /\ kept' = Append(kept, FALSE)
    /\ UNCHANGED <<pc, exc, selVars, caller, filter_selection, json_exists,
                   filter_chain, filter_resid, script_lines, flagVars, mainVars, toolVars>>

IterateRecord(n) == IterateOver(Records, n)

PjcRecord == IterateRecord(MaxRecs)

\* the document is exhausted: return contacts
PjcReturn ==
    /\ pc = "loop"
    /\ pc' = "return"
    /\ UNCHANGED <<exc, selVars, pjcVars, flagVars, mainVars, toolVars>>

\* the rest of generate_enhanced_pymol_script: the script is built from the
\* returned contacts and written
GenWrite ==
    /\ pc = "return"
    /\ caller = "generate"
    /\ \E order \in Orders(used_interaction_types(contacts)) :
           script_lines' = ScriptLines(selection_str, chain, resid, contacts, order)
    /\ pc' = "written"
    /\ UNCHANGED <<exc, selVars, caller, filter_selection, json_exists, data,
                   filter_chain, filter_resid, contacts, kept, flagVars, mainVars, toolVars>>

NextExt == GenParseSelection \/ PjcMissing \/ PjcLoad \/ PjcRecord \/ PjcReturn

SpecExt == InitExt /\ [][NextExt]_vars

\* ------------- specification: one call of generate_enhanced_pymol_script
InitGen ==
    /\ InitExt
    /\ caller = "generate"
    /\ Len(selection_str) <= GenLen

GenRecord == IterateRecord(GenRecs)

NextGen ==
    GenParseSelection \/ PjcMissing \/ PjcLoad \/ GenRecord \/ PjcReturn \/ GenWrite

SpecGen == InitGen /\ [][NextGen]_vars

\* ------- specification: the style lookup, for one record of any labels
\* every label the analysis tool is mapped from, and one it is not
RawLabels == Mapped \cup {"foo"}

LabelLists == UNION {[1..n -> RawLabels] : n \in 1..MaxStyleLabels}

StyleRecords == {Rec("atom-atom", eA1, eB11, l, 4) : l \in LabelLists}

InitStyle ==
    /\ InitExt
    /\ caller = "generate"
    /\ selection_str = <<"A", ":", "1">>

StyleRecord == IterateOver(StyleRecords, 1)

NextStyle ==
    GenParseSelection \/ PjcMissing \/ PjcLoad \/ StyleRecord \/ PjcReturn \/ GenWrite

SpecStyle == InitStyle /\ [][NextStyle]_vars


\* ------------------------------------------- specification: main's batch
\* does generate_enhanced_pymol_script raise for this selection: in
\* parse_selection, or in parse_json_contacts once the JSON file is there
GenerateRaises(sel, exists) ==
    LET r == parse_selection(sel)
    IN  \/ r.raised
        \/ /\ exists
           /\ ParseFilter(FilterSelection(r.chain, r.resid)).raised

InitMain ==
    /\ pc = "main_loop"
    /\ args \in [skip_analysis : BOOLEAN, pymol_only : BOOLEAN, auto_pymol : BOOLEAN,
                 no_auto_pymol : BOOLEAN, nsel : 1..MaxSels]
    /\ sel_index = 0
    /\ log = <<>>
    /\ events = <<>>
    /\ outputs = <<>>
    /\ selection_str = None
    /\ chain = None
    /\ resid = None
    /\ exc = "none"
    /\ PjcIdle
    /\ FlagIdle
    /\ ToolIdle

\* if not args.skip_analysis and not args.pymol_only
NeedsAnalysisUnlessBoth(a) == ~a.skip_analysis \/ ~a.pymol_only

NeedsAnalysis(a) == ~a.skip_analysis /\ ~a.pymol_only

\* if args.auto_pymol and not args.no_auto_pymol
AutoPymol(a) == a.auto_pymol /\ ~a.no_auto_pymol

\* script_name = f"{base_name}_{selection_clean}.pml"
script_name(sel) == <<base_name, "_">> \o selection_clean(sel) \o <<".pml">>

Event(ev) == [sel |-> sel_index, ev |-> ev]

\* for selection in args.selection: the next selection is taken
MainNextSelection ==
    /\ pc = "main_loop"
    /\ sel_index < args.nsel
    /\ selection_str' \in Strings(GenLen)
    /\ sel_index' = sel_index + 1
    /\ pc' = IF NeedsAnalysis(args) THEN "analysis" ELSE "script"
    /\ UNCHANGED <<exc, chain, resid, pjcVars, flagVars, args, log, events, outputs, toolVars>>

\* run_arpeggio_analysis returned True
MainAnalysisOk ==
    /\ pc = "analysis"
    /\ events' = Append(events, Event("analysis ok"))
    /\ pc' = "script"
    /\ UNCHANGED <<exc, selVars, pjcVars, flagVars, args, sel_index, log, outputs, toolVars>>

\* run_arpeggio_analysis returned False: reported, continue
MainAnalysisFailed ==
    /\ pc = "analysis"
    /\ events' = Append(events, Event("analysis failed"))
    /\ log' = Append(log, "failed to analyze")
    /\ pc' = "main_loop"
    /\ UNCHANGED <<exc, selVars, pjcVars, flagVars, args, sel_index, outputs, toolVars>>

\* run_arpeggio_analysis raises: os.makedirs is outside its try, and the try
\* catches CalledProcessError and FileNotFoundError only
MainAnalysisRaises ==
    /\ pc = "analysis"
    /\ events' = Append(events, Event("analysis raised"))
    /\ exc' = "OSError"
    /\ pc' = "crashed"
    /\ UNCHANGED <<selVars, pjcVars, flagVars, args, sel_index, log, outputs, toolVars>>

\* generate_enhanced_pymol_script raises: nothing in main catches it
MainGenerateRaises ==
    /\ pc = "script"
    /\ \E exists \in BOOLEAN :
        /\ GenerateRaises(selection_str, exists)
        /\ json_exists' = exists
    /\ exc' = "ValueError"
    /\ pc' = "crashed"
    /\ UNCHANGED <<selVars, caller, filter_selection, data, filter_chain, filter_resid,
                   contacts, kept, script_lines, flagVars, mainVars, toolVars>>

\* generate_enhanced_pymol_script wrote the script and returned pse_file;
\* track says whether the file names it used are kept in outputs
Generate(track) ==
    /\ pc = "script"
    /\ \E exists \in BOOLEAN :
        /\ ~GenerateRaises(selection_str, exists)
        /\ json_exists' = exists
    /\ events' = Append(events, Event("script"))
    /\ outputs' = IF track
                  THEN Append(outputs, [selection |-> selection_str,
                                        script |-> script_name(selection_str),
                                        pse |-> PseFile(selection_str)])
                  ELSE outputs
    /\ pc' = IF AutoPymol(args) THEN "pymol" ELSE "report"
    /\ UNCHANGED <<exc, selVars, caller, filter_selection, data, filter_chain,
                   filter_resid, contacts, kept, script_lines, flagVars, args,
                   sel_index, log, toolVars>>

MainGenerate == Generate(FALSE)

BatchGenerate == Generate(TRUE)

\* run_pymol_automation returned, True or False
MainPymol ==
    /\ pc = "pymol"
    /\ events' = Append(events, Event("pymol"))
    /\ \E pymol_success \in BOOLEAN :
        log' = Append(log, IF pymol_success THEN "complete, PSE file generated"
                           ELSE "complete")
    /\ pc' = "main_loop"
    /\ UNCHANGED <<exc, selVars, pjcVars, flagVars, args, sel_index, outputs, toolVars>>

\* the report of a selection for which PyMOL was not run
MainReport ==
    /\ pc = "report"
    /\ log' = Append(log, "complete")
    /\ pc' = "main_loop"
    /\ UNCHANGED <<exc, selVars, pjcVars, flagVars, args, sel_index, events, outputs, toolVars>>

\* the loop is over: "All selections processed successfully!"
MainExit ==
    /\ pc = "main_loop"
    /\ sel_index = args.nsel
    /\ pc' = "exit"
    /\ UNCHANGED <<exc, selVars, pjcVars, flagVars, mainVars, toolVars>>

NextMain ==
    \/ MainNextSelection
    \/ MainAnalysisOk
    \/ MainAnalysisFailed
    \/ MainAnalysisRaises
    \/ MainGenerateRaises
    \/ MainGenerate
    \/ MainPymol
    \/ MainReport
    \/ MainExit

SpecMain == InitMain /\ [][NextMain]_vars

\* ------------------------------- specification: the files of one batch
\* main's loop again, with the file names of every script written kept
NextBatch ==
    \/ MainNextSelection
    \/ MainAnalysisOk
    \/ MainAnalysisFailed
    \/ MainAnalysisRaises
    \/ MainGenerateRaises
    \/ BatchGenerate
    \/ MainPymol
    \/ MainReport
    \/ MainExit

SpecBatch == InitMain /\ [][NextBatch]_vars

\* ------------------- specification: the flag of one record's label list
Labels == {"clash", "covalent", "vdw_clash", "vdw", "proximal", "hbond", "foo"}

InitFlag ==
    /\ pc = "flag"
    /\ interaction_types \in UNION {[1..k -> Labels] : k \in 0..MaxLabels}
    /\ dist_flag = "unset"
    /\ selection_str = None
    /\ chain = None
    /\ resid = None
    /\ exc = "none"
    /\ PjcIdle
    /\ MainIdle
    /\ ToolIdle

DetermineFlag ==
    /\ pc = "flag"
    /\ dist_flag' = DistFlag(interaction_types)
    /\ pc' = "flagged"
    /\ UNCHANGED <<exc, selVars, pjcVars, interaction_types, mainVars, toolVars>>

NextFlag == DetermineFlag

SpecFlag == InitFlag /\ [][NextFlag]_vars

\* ---------------------------------------- specification: parse_selection
InitSel ==
    /\ selection_str \in Strings(MaxLen)
    /\ pc = "parse_selection"
    /\ chain = None
    /\ resid = None
    /\ exc = "none"
    /\ PjcIdle
    /\ FlagIdle
    /\ MainIdle
    /\ ToolIdle

SelReturn ==
    /\ pc = "parse_selection"
    /\ ~parse_selection(selection_str).raised
    /\ chain' = parse_selection(selection_str).chain
    /\ resid' = parse_selection(selection_str).resid
    /\ pc' = "returned"
    /\ UNCHANGED <<selection_str, exc, pjcVars, flagVars, mainVars, toolVars>>

SelRaise ==
    /\ pc = "parse_selection"
    /\ parse_selection(selection_str).raised
    /\ exc' = "ValueError"
    /\ pc' = "raised"
    /\ UNCHANGED <<selection_str, chain, resid, pjcVars, flagVars, mainVars, toolVars>>

NextSel == SelReturn \/ SelRaise

SpecSel == InitSel /\ [][NextSel]_vars

\* ------------------------------ specification: run_pymol_automation
\* the return codes of the PyMOL process, negative when a signal ended it
ReturnCodes == (0 - 1)..MaxCode

\* the lines written to temp_script
TempLines(sel) ==
    <<Line("# Automated PyMOL execution script"),
      LineA("load", <<structure_file>>),
      LineA("run", <<script_name(sel)>>),
      LineA("save", <<PseFile(sel)>>),
      Line("quit")>>

\* run_pymol_automation(args.structure_file, script_name, pse_file), called
\* by main for a selection whose script was written
InitPymol ==
    /\ pc = "rpa_open"
    /\ selection_str \in {s \in Strings(GenLen) : ~GenerateRaises(s, FALSE)}
    /\ chain = None
    /\ resid = None
    /\ exc = "none"
    /\ PjcIdle
    /\ FlagIdle
    /\ MainIdle
    /\ ToolIdle

\* open(temp_script, 'w') raises: no file, except Exception returns False
RpaOpenFails ==
    /\ pc = "rpa_open"
    /\ caught' = "Exception"
    /\ ret' = "False"
    /\ pc' = "rpa_finally"
    /\ UNCHANGED <<exc, selVars, pjcVars, flagVars, mainVars, temp_script, result,
                   remove_failed, cifVars>>

\* a write raises after n lines: the file is there, except Exception
\* returns False
RpaWriteFails ==
    /\ pc = "rpa_open"
    /\ \E n \in 0..4 : temp_script' = File(SubSeq(TempLines(selection_str), 1, n))
    /\ caught' = "Exception"
    /\ ret' = "False"
    /\ pc' = "rpa_finally"
    /\ UNCHANGED <<exc, selVars, pjcVars, flagVars, mainVars, result, remove_failed,
                   cifVars>>

\* the with block wrote the five lines
RpaWriteScript ==
    /\ pc = "rpa_open"
    /\ temp_script' = File(TempLines(selection_str))
    /\ pc' = "rpa_run"
    /\ UNCHANGED <<exc, selVars, pjcVars, flagVars, mainVars, result, caught, ret,
                   remove_failed, cifVars>>

\* subprocess.run returned: True for return code 0, else False
RpaRun ==
    /\ pc = "rpa_run"
    /\ \E rc \in ReturnCodes :
        /\ result' = <<rc>>
        /\ ret' = IF rc = 0 THEN "True" ELSE "False"
    /\ pc' = "rpa_finally"
    /\ UNCHANGED <<exc, selVars, pjcVars, flagVars, mainVars, temp_script, caught,
                   remove_failed, cifVars>>

\* subprocess.run raised: each of the three except clauses returns False
RpaRunRaises ==
    /\ pc = "rpa_run"
    /\ caught' \in {"TimeoutExpired", "FileNotFoundError", "Exception"}
    /\ ret' = "False"
    /\ pc' = "rpa_finally"
    /\ UNCHANGED <<exc, selVars, pjcVars, flagVars, mainVars, temp_script, result,
                   remove_failed, cifVars>>

\* finally: if os.path.exists(temp_script): os.remove, whose exception is
\* swallowed by the bare except; then the function returns ret
RpaCleanupAfterSuccess ==
    /\ pc = "rpa_finally"
    /\ IF temp_script.exists /\ ret = "True"
       THEN \/ temp_script' = NoFile /\ remove_failed' = FALSE
            \/ temp_script' = temp_script /\ remove_failed' = TRUE
       ELSE UNCHANGED <<temp_script, remove_failed>>
    /\ pc' = "rpa_returned"
    /\ UNCHANGED <<exc, selVars, pjcVars, flagVars, mainVars, result, caught, ret,
                   cifVars>>

RpaCleanup ==
    /\ pc = "rpa_finally"
    /\ IF temp_script.exists
       THEN \/ temp_script' = NoFile /\ remove_failed' = FALSE
            \/ temp_script' = temp_script /\ remove_failed' = TRUE
       ELSE UNCHANGED <<temp_script, remove_failed>>
    /\ pc' = "rpa_returned"
    /\ UNCHANGED <<exc, selVars, pjcVars, flagVars, mainVars, result, caught, ret,
                   cifVars>>

NextPymol ==
    \/ RpaOpenFails
    \/ RpaWriteFails
    \/ RpaWriteScript
    \/ RpaRun
    \/ RpaRunRaises
    \/ RpaCleanup

SpecPymol == InitPymol /\ [][NextPymol]_vars

\* --------------------------- specification: pdb2cif.py in batch mode
\* full_path of the i-th entry of pdb_files
InputPdb(i) == <<"f", i, ".pdb">>

\* os.path.splitext(input_pdb)[0] + "_enhanced.cif"
OutputCif(i) == SubSeq(InputPdb(i), 1, Len(InputPdb(i)) - 1) \o <<"_enhanced.cif">>

Call(method, how) == [file |-> file_index, method |-> method, how |-> how]

\* target is a directory with at least one .pdb file
InitCif ==
    /\ pc = "batch_loop"
    /\ nfiles \in 1..MaxFiles
    /\ file_index = 0
    /\ calls = <<>>
    /\ results = <<>>
    /\ success_count = 0
    /\ selection_str = None
    /\ chain = None
    /\ resid = None
    /\ exc = "none"
    /\ PjcIdle
    /\ FlagIdle
    /\ MainIdle
    /\ RpaIdle

\* for pdb_file in pdb_files: pdb_to_cif_enhanced(full_path) is called
CifNextFile ==
    /\ pc = "batch_loop"
    /\ file_index < nfiles
    /\ file_index' = file_index + 1
    /\ pc' = "gemmi"
    /\ UNCHANGED <<exc, selVars, pjcVars, flagVars, mainVars, rpaVars, nfiles, calls,
                   results, success_count>>

\* try_gemmi_conversion returned True: return output_cif
CifGemmiOk ==
    /\ pc = "gemmi"
    /\ calls' = Append(calls, Call("gemmi", "ok"))
    /\ results' = Append(results, OutputCif(file_index))
    /\ pc' = "count"
    /\ UNCHANGED <<exc, selVars, pjcVars, flagVars, mainVars, rpaVars, nfiles,
                   file_index, success_count>>

\* try_gemmi_conversion caught one of its two exceptions and returned False
CifGemmiFailed ==
    /\ pc = "gemmi"
    /\ \E e \in {"CalledProcessError", "FileNotFoundError"} :
           calls' = Append(calls, Call("gemmi", e))
    /\ pc' = "biopython"
    /\ UNCHANGED <<exc, selVars, pjcVars, flagVars, mainVars, rpaVars, nfiles,
                   file_index, results, success_count>>

\* subprocess.run raised something else, which try_gemmi_conversion does
\* not catch, nor does any caller
CifGemmiRaises ==
    /\ pc = "gemmi"
    /\ calls' = Append(calls, Call("gemmi", "raised"))
    /\ exc' = "OSError"
    /\ pc' = "crashed"
    /\ UNCHANGED <<selVars, pjcVars, flagVars, mainVars, rpaVars, nfiles, file_index,
                   results, success_count>>

\* create_enhanced_cif returned True: return output_cif
CifBioOk ==
    /\ pc = "biopython"
    /\ calls' = Append(calls, Call("biopython", "ok"))
    /\ results' = Append(results, OutputCif(file_index))
    /\ pc' = "count"
    /\ UNCHANGED <<exc, selVars, pjcVars, flagVars, mainVars, rpaVars, nfiles,
                   file_index, success_count>>

\* create_enhanced_cif caught an exception and returned False: return None
CifBioFailed ==
    /\ pc = "biopython"
    /\ calls' = Append(calls, Call("biopython", "Exception"))
    /\ results' = Append(results, None)
    /\ pc' = "count"
    /\ UNCHANGED <<exc, selVars, pjcVars, flagVars, mainVars, rpaVars, nfiles,
                   file_index, success_count>>

\* if result: success_count += 1
CifCountEvery ==
    /\ pc = "count"
    /\ success_count' = success_count + 1
    /\ pc' = "batch_loop"
    /\ UNCHANGED <<exc, selVars, pjcVars, flagVars, mainVars, rpaVars, nfiles,
                   file_index, calls, results>>

CifCount ==
    /\ pc = "count"
    /\ success_count' = IF Truthy(results[file_index]) THEN success_count + 1
                        ELSE success_count
    /\ pc' = "batch_loop"
    /\ UNCHANGED <<exc, selVars, pjcVars, flagVars, mainVars, rpaVars, nfiles,
                   file_index, calls, results>>

\* the loop is over: "Successfully converted {success_count}/{len(pdb_files)}"
CifReport ==
    /\ pc = "batch_loop"
    /\ file_index = nfiles
    /\ pc' = "cif_done"
    /\ UNCHANGED <<exc, selVars, pjcVars, flagVars, mainVars, toolVars>>

NextCif ==
    \/ CifNextFile
    \/ CifGemmiOk
    \/ CifGemmiFailed
    \/ CifGemmiRaises
    \/ CifBioOk
    \/ CifBioFailed
    \/ CifCount
    \/ CifReport

SpecCif == InitCif /\ [][NextCif]_vars

\* ------------------------------------------------------------- claims
SelDone == pc \in {"returned", "raised"}

NumOf(s, c) == Cardinality({k \in 1..Len(s) : s[k] = c})

\* the position of the n-th occurrence of c in s
PosOf(s, c, n) ==
    CHOOSE k \in 1..Len(s) :
        s[k] = c /\ Cardinality({m \in 1..k : s[m] = c}) = n

\* s is /X/Y/ with no slash in X or Y
IsSlashXY(s) == SlashFramed(s) /\ NumOf(s, "/") = 3
SlashX(s) == SubSeq(s, 2, PosOf(s, "/", 2) - 1)
SlashY(s) == SubSeq(s, PosOf(s, "/", 2) + 1, Len(s) - 1)

\* C3: for every selection of the form /X/Y/ (X, Y possibly empty),
\* parse_selection returns chain = X, or "A" when X is empty, and
\* residue = Y, or None when Y is empty.
C3_SlashFormResult ==
    (SelDone /\ IsSlashXY(selection_str)) =>
        /\ pc = "returned"
        /\ chain = (IF SlashX(selection_str) = <<>> THEN <<"A">>
                    ELSE SlashX(selection_str))
        /\ resid = (IF SlashY(selection_str) = <<>> THEN None
                    ELSE SlashY(selection_str))

\* C4: a selection that is not slash-framed and contains ':' is returned as
\* (X, Y) exactly when it splits on ':' into exactly two parts X and Y, and
\* fails with an error for any other number of parts.
C4_ColonForm ==
    (SelDone /\ ~SlashFramed(selection_str) /\ Contains(selection_str, ":")) =>
        IF NumOf(selection_str, ":") = 1
        THEN /\ pc = "returned"
             /\ chain = SubSeq(selection_str, 1, PosOf(selection_str, ":", 1) - 1)
             /\ resid = SubSeq(selection_str, PosOf(selection_str, ":", 1) + 1,
                               Len(selection_str))
        ELSE pc = "raised" /\ exc = "ValueError"

C4_Witness ==
    /\ pc = "raised"
    /\ ~SlashFramed(selection_str)
    /\ NumOf(selection_str, ":") = 2
    /\ Len(selection_str) = 5

\* C5: a selection that is neither slash-framed nor contains ':' is returned
\* as chain = None and residue = the whole string unchanged.
C5_BareForm ==
    (SelDone /\ ~SlashFramed(selection_str) /\ ~Contains(selection_str, ":")) =>
        /\ pc = "returned"
        /\ chain = None
        /\ resid = selection_str

C5_Witness ==
    /\ pc = "returned"
    /\ chain = None
    /\ resid = <<"/", "A", "/", "1">>
    /\ selection_str = <<"/", "A", "/", "1">>

\* ---- the distance flag (C1)
FlagPriority == <<"clash", "covalent", "vdw_clash", "vdw", "proximal">>

InList(l, types) == \E k \in 1..Len(types) : types[k] = l

\* the flag the priority order picks: that of the first label of FlagPriority
\* that occurs anywhere in the list
PriorityFlag(types) ==
    IF \A p \in 1..5 : ~InList(FlagPriority[p], types) THEN "proximal"
    ELSE LET p == CHOOSE q \in 1..5 :
                      /\ InList(FlagPriority[q], types)
                      /\ \A o \in 1..(q - 1) : ~InList(FlagPriority[o], types)
         IN  <<"clash", "covalent", "vdwclash", "vdw", "proximal">>[p]

FlagLabels == {FlagPriority[p] : p \in 1..5}

\* the flag of the distance label at the lowest list position
FirstListedFlag(types) ==
    IF \A k \in 1..Len(types) : types[k] \notin FlagLabels THEN "proximal"
    ELSE LET k == CHOOSE j \in 1..Len(types) :
                      /\ types[j] \in FlagLabels
                      /\ \A m \in 1..(j - 1) : types[m] \notin FlagLabels
         IN  IF types[k] = "vdw_clash" THEN "vdwclash" ELSE types[k]

\* C1 as stated: the flag is chosen by the priority order clash > covalent >
\* vdw_clash > vdw > proximal over the labels present, whatever their
\* positions in the list; none of the five gives proximal.
C1_PriorityOrder ==
    pc = "flagged" => dist_flag = PriorityFlag(interaction_types)

\* C1 as amended: the flag is that of the first label, in list order, that is
\* one of the five distance labels; none of the five gives proximal.
C1_FirstListed ==
    pc = "flagged" => dist_flag = FirstListedFlag(interaction_types)

C1_Witness ==
    /\ pc = "flagged"
    /\ interaction_types = <<"proximal", "clash">>
    /\ dist_flag = "proximal"

\* ---- the batch loop (C2)
\* C2: an error raised while one selection is processed is confined to it:
\* when the run of main has ended, every selection of the list was processed
\* and has its outcome reported.
C2_ErrorsConfined ==
    pc \in {"exit", "crashed"} => (sel_index = args.nsel /\ Len(log) = args.nsel)

\* ---- extraction (C6 - C10)
ParsedOk == caller = "generate" /\ pc # "generate" /\ ~parse_selection(selection_str).raised

\* the residue component is there and is no integer
BadResidue == ParsedOk /\ Truthy(resid) /\ \E k \in 1..Len(resid) : resid[k] \notin Digits

\* C6 as stated: with a residue component that is no integer, extraction fails
\* with an error and returns nothing, whatever the record source is.
C6_AlwaysFails ==
    (BadResidue /\ pc # "parse_json_contacts") => (pc = "raised" /\ exc = "ValueError")

\* C6 as amended: with a non-empty residue component that is no integer,
\* extraction fails with an error and returns no descriptor whenever the
\* record source exists; when it is missing, the selection is never validated
\* and the empty list is returned without an error.
C6_FailsWhenSourceExists ==
    (BadResidue /\ pc # "parse_json_contacts") =>
        /\ contacts = <<>>
        /\ data = <<>>
        /\ IF json_exists
           THEN pc = "raised" /\ exc = "ValueError"
           ELSE pc = "return" /\ exc = "none"

C6_Witness ==
    /\ BadResidue
    /\ json_exists
    /\ pc = "raised"
    /\ selection_str = <<"/", "A", "/", "A", "/">>

HasCmd(script, c) == \E k \in 1..Len(script) : script[k].cmd = c

\* C7: when the JSON file does not exist, parse_json_contacts returns the
\* empty list and raises nothing, and generate_enhanced_pymol_script goes on
\* to write a script that reports that no contacts were found and has no
\* distance command.  (A run that ends in an error with the file missing
\* never called parse_json_contacts: parse_selection raised.)
C7_MissingSource ==
    (caller = "generate" /\ ~json_exists) =>
        /\ contacts = <<>>
        /\ pc = "raised" => parse_selection(selection_str).raised
        /\ pc = "return" => (exc = "none" /\ ENABLED GenWrite)
        /\ pc = "written" =>
              /\ exc = "none"
              /\ HasCmd(script_lines, "print \"No contacts found for the specified selection\"")
              /\ ~HasCmd(script_lines, "distance")
              /\ HasCmd(script_lines, "save")

C7_Witness ==
    /\ caller = "generate"
    /\ ~json_exists
    /\ pc = "written"
    /\ selection_str = <<"A", ":", "A">>
    /\ HasCmd(script_lines, "print \"No contacts found for the specified selection\"")

\* the filter is active: a selection reached the loop
FilterActive == pc \in {"loop", "return"} /\ json_exists /\ Truthy(filter_selection)

\* chain and residue number of an endpoint, "A" and 1 when missing
ChainOf(rec, side) ==
    IF side \in DOMAIN rec /\ "auth_asym_id" \in DOMAIN rec[side]
    THEN rec[side].auth_asym_id ELSE <<"A">>

ResidueOf(rec, side) ==
    IF side \in DOMAIN rec /\ "auth_seq_id" \in DOMAIN rec[side]
    THEN rec[side].auth_seq_id ELSE 1

HasTypeAtomAtom(rec) == "type" \in DOMAIN rec /\ rec.type = "atom-atom"

EndpointMatches(rec, side) ==
    IF filter_chain # None /\ filter_chain # <<>>
    THEN ChainOf(rec, side) = filter_chain /\ ResidueOf(rec, side) = filter_resid
    ELSE ResidueOf(rec, side) = filter_resid

\* C8: with an active filter an atom-atom record is kept if and only if its
\* begin endpoint or its end endpoint matches, a missing chain counting as
\* "A" and a missing residue number as 1; with a filter chain both chain and
\* residue number must agree, without one the residue number alone.
C8_InclusiveOr ==
    FilterActive =>
        \A i \in 1..Len(data) :
            HasTypeAtomAtom(data[i]) =>
                (kept[i] <=> (EndpointMatches(data[i], "bgn")
                              \/ EndpointMatches(data[i], "end")))

\* selection /A/1/ keeps a record with begin (A, 1) and end (A, 11), and drops
\* one with begin (B, 11) and end (A, 11)
C8_Witness ==
    /\ pc = "return"
    /\ selection_str = <<"/", "A", "/", "1", "/">>
    /\ Len(data) = 2
    /\ data[1] = Rec("atom-atom", eA1, eA11, <<"hbond">>, 3)
    /\ data[2] = Rec("atom-atom", eB11, eA11, <<"hbond">>, 3)
    /\ kept = <<TRUE, FALSE>>
    /\ Len(contacts) = 1

RECURSIVE LabelTotal(_, _)
\* the number of labels of the records of d that k marks
LabelTotal(d, k) ==
    IF d = <<>> THEN 0
    ELSE (IF Head(k) /\ "contact" \in DOMAIN Head(d) THEN Len(Head(d).contact) ELSE 0)
         + LabelTotal(Tail(d), Tail(k))

\* no selection was supplied, or it parsed to (None, None), or its residue
\* component is absent
NoFilterCase ==
    \/ caller = "direct"
    \/ ParsedOk /\ ~Truthy(resid)

\* C9: when no filter is active, every atom-atom record of the input is
\* included in the output whatever its chains and residue numbers, and no
\* error is raised.
C9_NoFilterKeepsAll ==
    NoFilterCase =>
        /\ exc = "none"
        /\ pc # "raised"
        /\ \A i \in 1..Len(data) : HasTypeAtomAtom(data[i]) => kept[i]
        /\ Len(contacts) = LabelTotal(data, [i \in 1..Len(data) |-> HasTypeAtomAtom(data[i])])

C9_Witness ==
    /\ pc = "return"
    /\ selection_str = <<"/", "A", "/">>
    /\ chain = None
    /\ resid = None
    /\ Len(data) = 2
    /\ data[1] = Rec("atom-atom", eB11, eA11, <<"hbond">>, 3)
    /\ data[2] = Rec("atom-atom", eA1, eB11, <<"vdw_clash", "aromatic">>, 4)
    /\ kept = <<TRUE, TRUE>>
    /\ Len(contacts) = 3

\* C10: a record whose type is not atom-atom never contributes a descriptor,
\* with or without a filter: it is skipped, and the output holds exactly one
\* descriptor per label of the records that were not skipped.
C10_OnlyAtomAtom ==
    /\ Len(kept) = Len(data)
    /\ \A i \in 1..Len(data) : ~HasTypeAtomAtom(data[i]) => ~kept[i]
    /\ Len(contacts) = LabelTotal(data, kept)

C10_Witness ==
    /\ pc = "return"
    /\ filter_selection = <<"1">>
    /\ Len(data) = 2
    /\ data[1] = Rec("atom-plane", eA1, eA11, <<"hbond">>, 3)
    /\ data[2] = Rec("atom-atom", eA1, eA11, <<"hbond">>, 3)
    /\ kept = <<FALSE, TRUE>>
    /\ Len(contacts) = 1

\* ---- the shape of the output (C11, C12)
\* the fixed label table, as label -> interaction type pairs
MappingTable ==
    {<<"clash", "clash">>, <<"covalent", "covalent">>, <<"vdw_clash", "vdwclash">>,
     <<"vdw", "vdw">>, <<"proximal", "proximal">>, <<"hbond", "hbond">>,
     <<"weak_hbond", "weakhbond">>, <<"xbond", "xbond">>, <<"ionic", "ionic">>,
     <<"metal", "metalcomplex">>, <<"aromatic", "aromatic">>,
     <<"hydrophobic", "hydrophobic">>, <<"carbonyl", "carbonyl">>,
     <<"polar", "polar">>, <<"weak_polar", "weakpolar">>}

TableValues == {p[2] : p \in MappingTable}

\* the interaction type a label is mapped to
MappedType(label) ==
    IF \E p \in MappingTable : p[1] = label
    THEN (CHOOSE p \in MappingTable : p[1] = label)[2]
    ELSE "undefined"

LabelsOf(rec) == IF "contact" \in DOMAIN rec THEN rec.contact ELSE <<>>

\* the number of descriptors of the records before the i-th
BlockStart(i) == LabelTotal(SubSeq(data, 1, i - 1), SubSeq(kept, 1, i - 1))

\* C11: the output is the concatenation, in input record order, of one block
\* per kept record; the block of a record with N labels has exactly N
\* descriptors, the i-th carrying the i-th label as original type and its
\* mapped interaction type, all N sharing begin selector, end selector,
\* distance and distance flag.
C11_BlocksInOrder ==
    /\ Len(contacts) = LabelTotal(data, kept)
    /\ \A i \in 1..Len(data) :
          kept[i] =>
              \A k \in 1..Len(LabelsOf(data[i])) :
                  LET d == contacts[BlockStart(i) + k]
                      first == contacts[BlockStart(i) + 1]
                  IN  /\ d.original_type = LabelsOf(data[i])[k]
                      /\ d.interaction_type = MappedType(LabelsOf(data[i])[k])
                      /\ d.bgn_sel = first.bgn_sel
                      /\ d.end_sel = first.end_sel
                      /\ d.distance = first.distance
                      /\ d.dist_flag = first.dist_flag

\* a dropped record, then labels ["vdw_clash", "aromatic"]: two descriptors of
\* types vdwclash and aromatic, both with flag vdwclash
C11_Witness ==
    /\ pc = "return"
    /\ filter_selection = <<"A", ":", "1">>
    /\ Len(data) = 2
    /\ data[1] = Rec("atom-atom", eB11, eA11, <<"hbond">>, 3)
    /\ data[2] = Rec("atom-atom", eA1, eB11, <<"vdw_clash", "aromatic">>, 4)
    /\ kept = <<FALSE, TRUE>>
    /\ Len(contacts) = 2
    /\ contacts[1].interaction_type = "vdwclash"
    /\ contacts[2].interaction_type = "aromatic"
    /\ contacts[1].dist_flag = "vdwclash"
    /\ contacts[2].dist_flag = "vdwclash"

\* C12: every descriptor has an interaction type that is a value of the fixed
\* label table or "undefined"; a label that is not in the table is mapped to
\* "undefined", raises nothing and loses no descriptor.
C12_TypeInTable ==
    /\ \A k \in 1..Len(contacts) :
          /\ contacts[k].interaction_type \in TableValues \cup {"undefined"}
          /\ (\A p \in MappingTable : p[1] # contacts[k].original_type)
                => contacts[k].interaction_type = "undefined"
    /\ Len(contacts) = LabelTotal(data, kept)
    /\ data # <<>> => exc = "none"

C12_Witness ==
    /\ pc = "return"
    /\ Len(data) = 1
    /\ data[1] = Rec("atom-atom", eA1, eB11, <<"proximal", "clash", "foo">>, 4)
    /\ Len(contacts) = 3
    /\ contacts[3].original_type = "foo"
    /\ contacts[3].interaction_type = "undefined"
\* --------------------------------------------------------------- C13
\* C13: in one batch, any two different selection strings for which a script
\* was written have different script file names and different PSE file names
C13_SeparateOutputs ==
    \A i, j \in 1..Len(outputs) :
        outputs[i].selection # outputs[j].selection =>
            /\ outputs[i].script # outputs[j].script
            /\ outputs[i].pse # outputs[j].pse

\* --------------------------------------------------------------- C14
PositionsOf(c) == {k \in 1..Len(script_lines) : script_lines[k].cmd = c}

\* the four commands that style one label
StyleCmds == {"color", "set dash_radius", "set dash_gap", "set dash_length"}

StylePositions == {k \in 1..Len(script_lines) : script_lines[k].cmd \in StyleCmds}

\* C14: a written script has one util.cbaw and one save; every distance
\* command, one per contact, stands before util.cbaw, every styling command
\* of a label stands after util.cbaw and before save; also for no contacts
C14_CommandOrder ==
    pc = "written" =>
        /\ Cardinality(PositionsOf("util.cbaw")) = 1
        /\ Cardinality(PositionsOf("save")) = 1
        /\ Cardinality(PositionsOf("distance")) = Len(contacts)
        /\ \A u \in PositionsOf("util.cbaw") :
              /\ \A d \in PositionsOf("distance") : d < u
              /\ \A k \in StylePositions : u < k
        /\ \A v \in PositionsOf("save") :
              /\ \A k \in StylePositions : k < v
              /\ \A u \in PositionsOf("util.cbaw") : u < v

C14_Witness ==
    /\ pc = "written"
    /\ Len(contacts) >= 2
    /\ StylePositions # {}

C14_WitnessEmpty ==
    /\ pc = "written"
    /\ json_exists
    /\ contacts = <<>>

\* --------------------------------------------------------------- C15
HasEvent(i, e) == \E k \in 1..Len(events) : events[k] = [sel |-> i, ev |-> e]

AnalysisEvents == {"analysis ok", "analysis failed", "analysis raised"}

\* run_arpeggio_analysis was called for the i-th selection
AnalysisRun(i) ==
    \/ \E e \in AnalysisEvents : HasEvent(i, e)
    \/ i = sel_index /\ pc = "analysis"

\* run_pymol_automation was called for the i-th selection
PymolRun(i) ==
    \/ HasEvent(i, "pymol")
    \/ i = sel_index /\ pc = "pymol"

\* C15: for every selection begun, the analysis is run exactly when neither
\* skip_analysis nor pymol_only is set; after a failed analysis the selection
\* gets no script and no PyMOL run and main is back at the loop head, where
\* the next selection can be taken; PyMOL is run only with auto_pymol set and
\* no_auto_pymol not set, and only after the script of the same selection
C15_MainControlFlow ==
    \A i \in 1..sel_index :
        /\ AnalysisRun(i) <=> (~args.skip_analysis /\ ~args.pymol_only)
        /\ HasEvent(i, "analysis failed") =>
              /\ ~HasEvent(i, "script")
              /\ ~PymolRun(i)
              /\ i = sel_index =>
                    /\ pc \in {"main_loop", "exit"}
                    /\ exc = "none"
                    /\ (pc = "main_loop" /\ sel_index < args.nsel)
                          => ENABLED MainNextSelection
        /\ PymolRun(i) =>
              /\ args.auto_pymol /\ ~args.no_auto_pymol
              /\ HasEvent(i, "script")
        /\ \A k \in 1..Len(events) :
              events[k] = [sel |-> i, ev |-> "pymol"] =>
                  \E j \in 1..(k - 1) : events[j] = [sel |-> i, ev |-> "script"]

\* the first selection's analysis failed and the second selection went on
\* to its script and its PyMOL run
C15_Witness ==
    /\ HasEvent(1, "analysis failed")
    /\ HasEvent(2, "analysis ok")
    /\ HasEvent(2, "script")
    /\ HasEvent(2, "pymol")

\* --------------------------------------------------------------- C16
\* C16: when run_pymol_automation has returned, it returned True exactly
\* when the process ended with return code 0 and nothing was caught, and
\* False otherwise; no exception is propagating; and the temporary script
\* is gone unless its removal failed
C16_ReturnsAndCleansUp ==
    /\ exc = "none"
    /\ pc = "rpa_returned" =>
          /\ ret \in {"True", "False"}
          /\ ret = "True" <=> (result = <<0>> /\ caught = "none")
          /\ (result # <<>> /\ result # <<0>>) => ret = "False"
          /\ caught \in {"TimeoutExpired", "FileNotFoundError", "Exception"}
                => ret = "False"
          /\ ~remove_failed => ~temp_script.exists

\* the process timed out, False was returned and the script was removed
C16_Witness ==
    /\ pc = "rpa_returned"
    /\ caught = "TimeoutExpired"
    /\ ret = "False"
    /\ ~temp_script.exists
    /\ ~remove_failed

\* --------------------------------------------------------------- C17
FlagTypes == {"clash", "covalent", "vdwclash", "vdw", "proximal"}

\* the pairs with an entry in the colour table
ColourPairs ==
    UNION {{<<t, f>> : f \in DOMAIN dashcolor[t]} : t \in DOMAIN dashcolor}

InTable(table, p) == p[1] \in DOMAIN table /\ p[2] \in DOMAIN table[p[1]]

\* the positions of the styling commands c of the label p
StyledAt(c, p) ==
    {k \in 1..Len(script_lines) :
        script_lines[k].cmd = c /\ script_lines[k].arg[2] = p}

\* the label the k-th distance command is given
DistanceLabel(k) ==
    LET pos == {n \in PositionsOf("distance") :
                    Cardinality({m \in PositionsOf("distance") : m <= n}) = k}
    IN  script_lines[CHOOSE n \in pos : TRUE].arg[1]

\* C17: every pair with a colour entry has an entry in the three other
\* tables; the script can always be written; in a written script a used
\* pair has its four styling commands, once each, if it has a colour entry
\* and none if it has not; and a descriptor whose type is one of the five
\* distance classes is labelled with that type as flag, any other one with
\* the flag of its record
C17_FailsClosed ==
    /\ \A p \in ColourPairs :
          InTable(dashradius, p) /\ InTable(dashgap, p) /\ InTable(dashlength, p)
    /\ exc = "none"
    /\ (pc = "return" /\ caller = "generate") => ENABLED GenWrite
    /\ pc = "written" =>
          /\ \A k \in 1..Len(contacts) :
                LET t == contacts[k].interaction_type
                IN  DistanceLabel(k) =
                        <<t, IF t \in FlagTypes THEN t ELSE contacts[k].dist_flag>>
          /\ \A k \in StylePositions :
                \E n \in 1..Len(contacts) : script_lines[k].arg[2] = DistanceLabel(n)
          /\ \A n \in 1..Len(contacts) :
                LET p == DistanceLabel(n)
                IN  \A c \in StyleCmds :
                        Cardinality(StyledAt(c, p)) = IF p \in ColourPairs THEN 1 ELSE 0

\* a record labelled clash and hbond: clash-clash is styled, hbond-clash,
\* which has no colour entry, is not
C17_Witness ==
    /\ pc = "written"
    /\ \E n \in 1..Len(contacts) :
          /\ DistanceLabel(n) \notin ColourPairs
          /\ StyledAt("color", DistanceLabel(n)) = {}
    /\ \E n \in 1..Len(contacts) :
          /\ DistanceLabel(n) \in ColourPairs
          /\ StyledAt("color", DistanceLabel(n)) # {}

\* --------------------------------------------------------------- C18
\* the positions in calls of the calls of a method for the i-th file
CallsOf(i, method) ==
    {k \in 1..Len(calls) : calls[k].file = i /\ calls[k].method = method}

Succeeded(i, method) ==
    \E k \in CallsOf(i, method) : calls[k].how = "ok"

ReturnedFalse(i, method) ==
    \E k \in CallsOf(i, method) :
        calls[k].how \in {"CalledProcessError", "FileNotFoundError", "Exception"}

\* C18: for every file, gemmi is tried first and once, BioPython is tried
\* only after gemmi returned False; the result is the output path exactly
\* when one of the two succeeded and None exactly when both returned False;
\* after a file that gave None the batch is at its loop again, where the
\* next file can be taken; and success_count is the number of files that
\* gave a path
C18_FallbackOrder ==
    /\ \A i \in 1..file_index :
          /\ Cardinality(CallsOf(i, "gemmi")) <= 1
          /\ Cardinality(CallsOf(i, "biopython")) <= 1
          /\ \A b \in CallsOf(i, "biopython") :
                \E g \in CallsOf(i, "gemmi") :
                    g < b /\ calls[g].how \in {"CalledProcessError", "FileNotFoundError"}
          /\ Succeeded(i, "gemmi") => CallsOf(i, "biopython") = {}
    /\ Len(results) <= file_index
    /\ \A i \in 1..Len(results) :
          /\ results[i] \in {OutputCif(i), None}
          /\ results[i] = OutputCif(i)
                <=> (Succeeded(i, "gemmi") \/ Succeeded(i, "biopython"))
          /\ results[i] = None
                <=> (ReturnedFalse(i, "gemmi") /\ ReturnedFalse(i, "biopython"))
          /\ (results[i] = None /\ i = file_index) =>
                /\ pc \in {"count", "batch_loop", "cif_done"}
                /\ exc = "none"
                /\ (pc = "batch_loop" /\ file_index < nfiles) => ENABLED CifNextFile
    /\ pc \in {"batch_loop", "cif_done"} =>
          success_count = Cardinality({i \in 1..Len(results) : results[i] # None})
    /\ pc = "cif_done" => Len(results) = nfiles

\* both methods failed for the first file, the second file was converted by
\* the BioPython fallback, and one success is reported
C18_Witness ==
    /\ pc = "cif_done"
    /\ nfiles = 2
    /\ results = <<None, OutputCif(2)>>
    /\ Succeeded(2, "biopython")
    /\ success_count = 1

====
